---- MODULE Spec2Model ----
(***************************************************************************)
(* Resume Roaster: the extract-resume-data POST route                      *)
(* (src/src/lib/pdf-to-image.ts, lines 79-319) over the Prisma store       *)
(* (schema in src/unnamed/part_000).                                       *)
(*                                                                         *)
(* Every request runs the handler from its first line to its response.     *)
(* Each await that touches the store or the provider is one step, so the   *)
(* steps of concurrent requests interleave exactly where the handler can   *)
(* be suspended.                                                           *)
(*                                                                         *)
(* Conventions.  A text is a sequence of characters.  The handler reads    *)
(* resumeText, jobDescription and analysisId only through falsy tests      *)
(* (!x, x || '', x ? a : b), which cannot tell a missing value from the    *)
(* empty string: both are the empty sequence here.  A missing row id       *)
(* (null) is NoId.                                                         *)
(***************************************************************************)
EXTENDS Integers, Sequences, FiniteSets, TLC

\* ------------------------------------------------------------------ bounds
\* Number of requests the model follows, concurrently or one after another.
NReq == 2

Reqs == 1..NReq

\* --------------------------------------------------------------- constants
\* let generatedResumeId = null / let llmCallId = null
NoId == 0

\* const maxResumeLength = 8000.  Texts of the model are at most three
\* characters long, so the limit is scaled down to keep a text above it.
maxResumeLength == 2

\* '\n\n[Resume truncated for processing...]'
TruncationMarker == <<"[truncated]">>

\* const templateId = 'modern-professional'
templateId == <<"modern-professional">>

\* ------------------------------------------------------------------ inputs
NoSession == "none"

\* The users table: email -> id.  ghost@x has a session but no row.
UserEmails == {"a@x", "b@x"}
SessionEmails == UserEmails \cup {"ghost@x"}
Sessions == {NoSession} \cup SessionEmails

UserIdOf(email) == IF email = "a@x" THEN "ua" ELSE "ub"

\* The request inputs the model draws from: a base request, one that differs
\* from it only in how the text is split between resume and job description,
\* one that differs only in the analysis data, one that differs only in the
\* analysis id, one whose resume text is longer than maxResumeLength, and
\* one without resume text.
Inputs ==
  { [resumeText |-> <<"a">>, jobDescription |-> <<"b">>,
     analysisId |-> <<>>, analysisData |-> "none"],
    [resumeText |-> <<"a", "b">>, jobDescription |-> <<>>,
     analysisId |-> <<>>, analysisData |-> "none"],
    [resumeText |-> <<"a">>, jobDescription |-> <<"b">>,
     analysisId |-> <<>>, analysisData |-> "d1"],
    [resumeText |-> <<"a">>, jobDescription |-> <<"b">>,
     analysisId |-> <<"1">>, analysisData |-> "none"],
    [resumeText |-> <<"a", "b", "c">>, jobDescription |-> <<>>,
     analysisId |-> <<>>, analysisData |-> "none"],
    [resumeText |-> <<>>, jobDescription |-> <<"b">>,
     analysisId |-> <<>>, analysisData |-> "none"] }

Bodies ==
  { [resumeText |-> i.resumeText, analysisData |-> i.analysisData,
     jobDescription |-> i.jobDescription, analysisId |-> i.analysisId,
     bypassCache |-> c] : i \in Inputs, c \in BOOLEAN }

NoBody ==
  [resumeText |-> <<>>, analysisData |-> "none", jobDescription |-> <<>>,
   analysisId |-> <<>>, bypassCache |-> FALSE]

\* What the provider can return on success: the structured data (here the
\* fields calculateATSScore looks at), the token count and the cost.
ExtractedDatas ==
  { [name |-> FALSE, email |-> FALSE, phone |-> FALSE, summary |-> FALSE,
     experience |-> FALSE, education |-> FALSE, technical |-> FALSE,
     quantified |-> FALSE],
    [name |-> TRUE, email |-> TRUE, phone |-> FALSE, summary |-> TRUE,
     experience |-> TRUE, education |-> FALSE, technical |-> FALSE,
     quantified |-> TRUE] }

NoData == CHOOSE d \in ExtractedDatas : ~d.name

ProviderResponses ==
  { [data |-> d, totalTokens |-> IF d.name THEN 5 ELSE 4,
     cost |-> IF d.name THEN 2 ELSE 1] : d \in ExtractedDatas }

NoProviderResponse == [data |-> NoData, totalTokens |-> 0, cost |-> 0]

\* ----------------------------------------------------------------- helpers
Falsy(text) == text = <<>>

\* resumeText.length > maxResumeLength ? substring(0, max) + marker : text
Truncate(resumeText) ==
  IF Len(resumeText) > maxResumeLength
    THEN SubSeq(resumeText, 1, maxResumeLength) \o TruncationMarker
    ELSE resumeText

\* The digest is taken to be collision free on its byte input: it is the
\* tagged input itself.
Sha256Hex(bytes) == <<"sha256">> \o bytes

\* sha256(truncatedResumeText + (jobDescription || '') + templateId
\*        + (analysisId || ''))
ContentHash(truncatedResumeText, jobDescription, analysisId) ==
  Sha256Hex(truncatedResumeText \o jobDescription \o templateId \o analysisId)

\* The prompt: the parts of the request the provider sees.
Prompt(truncatedResumeText, jobDescription, analysisData) ==
  [jobDescription |-> jobDescription, resumeText |-> truncatedResumeText,
   analysisInsights |-> analysisData]

Bool2Score(b, points) == IF b THEN points ELSE 0

Min(a, b) == IF a < b THEN a ELSE b

calculateATSScore(d) ==
  Min(Bool2Score(d.name, 10) + Bool2Score(d.email, 10) + Bool2Score(d.phone, 5)
      + Bool2Score(d.summary, 15) + Bool2Score(d.experience, 20)
      + Bool2Score(d.education, 10) + Bool2Score(d.technical, 15)
      + Bool2Score(d.quantified, 15), 100)

\* Math.floor(tokensUsed * 0.8), Math.floor(tokensUsed * 0.2)
InputTokenEstimate(tokensUsed) == (tokensUsed * 8) \div 10
OutputTokenEstimate(tokensUsed) == (tokensUsed * 2) \div 10


\* ------------------------------------------------------------------- state
VARIABLES
  users,             \* users table: set of [id, email]
  generatedResumes,  \* generated_resumes table
  llmCalls,          \* llm_calls table
  llmMessages,       \* llm_messages table
  nextId,            \* source of row ids; also orders rows by creation time
  pc,                \* where each request stands in the handler
  session,           \* session.user.email of each request, or NoSession
  body,              \* the JSON body of each request
  before,            \* the requests that had finished when this one arrived
  loc,               \* the handler's local variables of each request
  resp,              \* the response of each request
  providerCalls,     \* calls of callAnthropicResumeOptimization per request
  dbError,           \* the store write of the request that threw, if any
  \* convertPDFToImages (src/src/lib/pdf-to-image.ts, lines 6-71)
  cvOutcome,         \* what the conversion service does with the request
  cvPc,              \* "pending" until convertPDFToImages has returned
  cvResult,          \* what convertPDFToImages gave its caller
  \* UserService usage tracking (src/unnamed/part_001, lines 295-385)
  accounts,          \* users table, usage columns: user id -> row
  now,               \* the wall clock, in ticks
  chk,               \* checkRoastLimit calls: locals of each caller
  result,            \* what the last checkRoastLimit to return returned
  incCount,          \* incrementRoastCount calls completed per account
  rolled,            \* accounts on which a rollover write has landed
  \* /api/extract-pdf-ai, choice of the extraction strategy
  tsInput,           \* who asks, and the method, provider and model asked for
  tsPc,              \* "idle", "pending" or "done"
  tsChoice,          \* the strategy chosen and the provider and model to invoke
  \* ResumeService and the tables hanging off resumes (part_001, part_000)
  rsResumes,         \* resumes table
  rsExtracted,       \* extracted_resumes table
  rsSummarized,      \* summarized_resumes table
  rsRoasts,          \* generated_roasts table
  rsNext,            \* next row id of each of the four tables
  rsNow,             \* the wall clock, in days
  rsSweep,           \* the last deleteOldResumes: its argument, day and count
  \* Charging an extraction
  charge,            \* the extraction being charged: model, credits quoted, usage debited
  \* GET /api/evaluations/[analysisId]
  evTable,           \* interview_evaluations table
  evResp,            \* the request handled last and its response
  \* /api/chatbot
  cbOwner,           \* conversation id -> user id the conversation was created for
  cbMessages,        \* chatbot rows: conversation, role, message
  cbUuids,           \* number of crypto.randomUUID() values drawn so far
  cbResp             \* the request handled last and its response

store == <<users, generatedResumes, llmCalls, llmMessages, nextId>>
routeVars == <<users, generatedResumes, llmCalls, llmMessages, nextId, pc,
               session, body, before, loc, resp, providerCalls, dbError>>
convertVars == <<cvOutcome, cvPc, cvResult>>
quotaVars == <<accounts, now, chk, result, incCount, rolled>>
tierVars == <<tsInput, tsPc, tsChoice>>
\* Everything the route handler does not touch.
resumeVars == <<rsResumes, rsExtracted, rsSummarized, rsRoasts, rsNext,
                rsNow, rsSweep>>
evalVars == <<evTable, evResp>>
chatVars == <<cbOwner, cbMessages, cbUuids, cbResp>>
laterVars == <<resumeVars, charge, evalVars, chatVars>>
nonRouteVars == <<convertVars, quotaVars, tierVars, laterVars>>
vars == <<routeVars, nonRouteVars>>

NoLocals ==
  [userId |-> "none", contentHash |-> <<>>,
   prompt |-> Prompt(<<>>, <<>>, "none"),
   response |-> NoProviderResponse, llmCallId |-> NoId]

NoResponse ==
  [status |-> 0, success |-> FALSE, cached |-> FALSE, resumeId |-> NoId,
   data |-> NoData, atsScore |-> 0, fromDatabase |-> FALSE,
   tokensUsed |-> 0, estimatedCost |-> 0, llmCallId |-> NoId]

\* NextResponse.json({ error }, { status })
ErrorResponse(status) == [NoResponse EXCEPT !.status = status]

\* existingResume.atsScore || 75
AtsScoreOrDefault(atsScore) == IF atsScore = 0 THEN 75 ELSE atsScore

\* The response of a cache hit, lines 158-168.
CachedResponse(existingResume) ==
  [NoResponse EXCEPT !.status = 200, !.success = TRUE, !.cached = TRUE,
     !.data = existingResume.data, !.resumeId = existingResume.id,
     !.atsScore = AtsScoreOrDefault(existingResume.atsScore),
     !.fromDatabase = TRUE]

\* The response after a provider call, lines 297-310.
FreshResponse(response, generatedResumeId, llmCallId) ==
  [NoResponse EXCEPT !.status = 200, !.success = TRUE, !.cached = FALSE,
     !.data = response.data, !.resumeId = generatedResumeId,
     !.atsScore = calculateATSScore(response.data),
     !.tokensUsed = response.totalTokens, !.estimatedCost = response.cost,
     !.llmCallId = llmCallId]

\* db.user.findUnique({ where: { email } }): the matching rows (0 or 1).
FindUserByEmail(email) == {u \in users : u.email = email}

\* A lookup that compares the hash with the wrong column: it never matches.
FindFirstGeneratedResumeWrongColumn(userId, contentHash) ==
  {g \in generatedResumes :
     g.userId = userId /\ g.templateId = contentHash}

\* db.generatedResume.findFirst({ where: { userId, contentHash },
\*                                orderBy: { createdAt: 'desc' } })
\* the matching rows, newest first: the set of the newest match, or {}.
FindFirstGeneratedResume(userId, contentHash) ==
  LET matches == {g \in generatedResumes :
                    g.userId = userId /\ g.contentHash = contentHash}
  IN {g \in matches : \A h \in matches : h.createdAt <= g.createdAt}

\* A schema without the unique constraint: no create is rejected.
ContentHashNeverTaken(contentHash) == FALSE

\* contentHash String @unique: a create with a taken hash is rejected.
ContentHashTaken(contentHash) ==
  \E g \in generatedResumes : g.contentHash = contentHash

\* ------------------------------------------------------ convertPDFToImages
\* The largest number of images the conversion service returns in the model.
MaxServiceImages == 4

\* README-PDF-EXTRACTION.md: "Page Limits: Maximum 3 pages".
MaxPages == 3

HttpStatuses == {200, 201, 404, 500}

\* response.ok
ResponseOk(status) == status >= 200 /\ status <= 299

\* What the conversion service can do with one request: the fetch rejects
\* (network error), or it answers with a status and a body; the body parses
\* as JSON or not; the parsed body has a truthy success or not (false or
\* absent), and an images array or none.
ServiceOutcomes ==
  [network : {"ok", "error"}, status : HttpStatuses, parses : BOOLEAN,
   success : BOOLEAN, hasImages : BOOLEAN,
   images : {[i \in 1..n |-> i] : n \in 0..MaxServiceImages}]

NoOutcome ==
  [network |-> "error", status |-> 500, parses |-> FALSE, success |-> FALSE,
   hasImages |-> FALSE, images |-> <<>>]

\* What a call gives its caller: it returns images, or it raises.
Returned(images) == [raised |-> FALSE, images |-> images]
Raised == [raised |-> TRUE, images |-> <<>>]

NoResult == Returned(<<>>)

\* The try block, lines 9-52: the images it returns, or Raised where a
\* statement of it throws.
ConvertTry(o) ==
  IF o.network = "error" THEN Raised                 \* await fetch rejects
  ELSE IF ~ResponseOk(o.status) THEN Raised          \* throw new Error(HTTP)
  ELSE IF ~o.parses THEN Raised                      \* response.json() throws
  ELSE IF ~o.success THEN Raised                     \* throw new Error(...)
  ELSE Returned(IF o.hasImages THEN o.images ELSE <<>>)  \* images || []

\* A catch block that logs and throws the error on.
ConvertCatchRethrows(attempt) == attempt

\* The catch block, lines 54-70: return [].
ConvertCatch(attempt) ==
  IF attempt.raised THEN Returned(<<>>) ELSE attempt

convertPDFToImages(o) == ConvertCatch(ConvertTry(o))

ConvertIdle ==
  /\ cvOutcome = NoOutcome
  /\ cvPc = "done"
  /\ cvResult = NoResult

\* ------------------------------------------------ extraction tier selector
\* The parameters of /api/extract-pdf-ai; "other" is a value outside the
\* documented ones.
Methods == {"basic", "ai", "auto"}
Providers == {"openai", "anthropic"}
Models == {"nano", "mini", "sonnet", "opus"}
Other == "other"

TierInputs ==
  [isRegisteredUser : BOOLEAN, requestedMethod : Methods,
   provider : Providers \cup {Other}, model : Models \cup {Other}]

NoTierInput ==
  [isRegisteredUser |-> FALSE, requestedMethod |-> "basic",
   provider |-> Other, model |-> Other]

\* Vision for every model.
VisionCapableAll(model) == TRUE

VisionCapable(model) == model \in {"mini", "sonnet", "opus"}

Basic == [strategy |-> "basic", provider |-> "none", model |-> "none"]
NoChoice == Basic

\* A selector that looks at the method before it looks at the user.
selectTierMethodFirst(in, hasPageImages) ==
  IF in.requestedMethod = "basic" THEN Basic
  ELSE IF /\ in.requestedMethod = "auto"
          /\ (in.provider \notin Providers \/ in.model \notin Models)
    THEN Basic
  ELSE IF hasPageImages /\ VisionCapable(in.model)
    THEN [strategy |-> "vision", provider |-> in.provider, model |-> in.model]
  ELSE IF ~in.isRegisteredUser THEN Basic
  ELSE [strategy |-> "text", provider |-> in.provider, model |-> in.model]

\* The decision table: anonymous -> basic; method basic -> basic; auto with
\* an unrecognized provider or model -> basic; page images and a
\* vision-capable model -> vision; else text.
selectTier(in, hasPageImages) ==
  IF ~in.isRegisteredUser THEN Basic
  ELSE IF in.requestedMethod = "basic" THEN Basic
  ELSE IF /\ in.requestedMethod = "auto"
          /\ (in.provider \notin Providers \/ in.model \notin Models)
    THEN Basic
  ELSE IF hasPageImages /\ VisionCapable(in.model)
    THEN [strategy |-> "vision", provider |-> in.provider, model |-> in.model]
  ELSE [strategy |-> "text", provider |-> in.provider, model |-> in.model]

TierIdle ==
  /\ tsInput = NoTierInput
  /\ tsPc = "idle"
  /\ tsChoice = NoChoice

\* ------------------------------------------------------------- UserService
\* Callers that may have a checkRoastLimit call in flight at the same time.
NCallers == 2

\* Ticks of the wall clock per calendar month.
TicksPerMonth == 2

\* Ticks the clock advances in a behaviour.
MaxTicks == 3

\* incrementRoastCount calls per account in a behaviour.
MaxRoasts == 4

Callers == 1..NCallers

\* The accounts of the users table; "ux" is an id without a row.
AccountIds == {"ua"}
RequestedIds == AccountIds \cup {"ux"}

\* enum SubscriptionTier
Tiers == {"FREE", "PLUS", "PREMIUM"}

\* const MONTHLY_LIMITS, lines 343-347
MONTHLY_LIMITS == [FREE |-> 3, PLUS |-> 100, PREMIUM |-> -1]

BonusBalances == {0, 2}

\* The clock starts in December of year 0, so that the first month boundary
\* is also a year boundary.
StartTick == 11 * TicksPerMonth
Ticks == StartTick..(StartTick + MaxTicks)

\* Date.getFullYear(), Date.getMonth() (0 = January)
getFullYear(t) == t \div (12 * TicksPerMonth)
getMonth(t) == (t \div TicksPerMonth) % 12

\* A difference that forgets the years.
monthsElapsedMonthOnly(t, lastReset) == getMonth(t) - getMonth(lastReset)

\* Lines 328-329
monthsElapsed(t, lastReset) ==
  (getFullYear(t) - getFullYear(lastReset)) * 12
    + (getMonth(t) - getMonth(lastReset))

Max(a, b) == IF a > b THEN a ELSE b

\* The row db.user.create writes, lines 306-313, with the schema defaults
\* (part_000, lines 28-37).
NewAccount(t) ==
  [subscriptionTier |-> "FREE", monthlyRoasts |-> 0, totalRoasts |-> 0,
   bonusCredits |-> 0, lastRoastReset |-> t]

NoCaller == [pc |-> "idle", userId |-> "ux", user |-> NewAccount(0), now |-> 0]

NoCheckResult ==
  [error |-> "no call", canRoast |-> FALSE, remaining |-> 0, used |-> 0,
   limit |-> 0, tier |-> "FREE", userId |-> "ux", read |-> NewAccount(0),
   at |-> 0, reset |-> FALSE]

\* A result whose remaining is not clamped at 0.
CheckResultNoClamp(userId, user, read, t, reset) ==
  LET limit == MONTHLY_LIMITS[user.subscriptionTier]
  IN [error |-> "none",
      canRoast |-> (limit = -1 \/ user.monthlyRoasts < limit),
      remaining |-> IF limit = -1 THEN -1 ELSE limit - user.monthlyRoasts,
      used |-> user.monthlyRoasts, limit |-> limit,
      tier |-> user.subscriptionTier,
      userId |-> userId, read |-> read, at |-> t, reset |-> reset]

\* A limit table with the wrong cap for the free tier.
CheckResultWrongLimits(userId, user, read, t, reset) ==
  LET limit == [FREE |-> 5, PLUS |-> 100, PREMIUM |-> -1][user.subscriptionTier]
  IN [error |-> "none",
      canRoast |-> (limit = -1 \/ user.monthlyRoasts < limit),
      remaining |-> IF limit = -1 THEN -1 ELSE Max(0, limit - user.monthlyRoasts),
      used |-> user.monthlyRoasts, limit |-> limit,
      tier |-> user.subscriptionTier,
      userId |-> userId, read |-> read, at |-> t, reset |-> reset]

\* Lines 349-359: the result of checkRoastLimit from the local user object.
\* userId, read (the row as findUnique returned it), at (the call's now) and
\* reset (whether the call wrote a rollover) record the call the result
\* belongs to.
CheckResult(userId, user, read, t, reset) ==
  LET limit == MONTHLY_LIMITS[user.subscriptionTier]
  IN [error |-> "none",
      canRoast |-> (limit = -1 \/ user.monthlyRoasts < limit),
      remaining |-> IF limit = -1 THEN -1 ELSE Max(0, limit - user.monthlyRoasts),
      used |-> user.monthlyRoasts, limit |-> limit,
      tier |-> user.subscriptionTier,
      userId |-> userId, read |-> read, at |-> t, reset |-> reset]

\* if (!user) throw new Error('User not found'), line 323
UserNotFound(userId, t) ==
  [NoCheckResult EXCEPT !.error = "User not found", !.userId = userId,
                        !.at = t]

QuotaIdle ==
  /\ accounts = [u \in AccountIds |-> NewAccount(StartTick)]
  /\ now = StartTick
  /\ chk = [c \in Callers |-> NoCaller]
  /\ result = NoCheckResult
  /\ incCount = [u \in AccountIds |-> 0]
  /\ rolled = {}

\* ----------------------------------------------------------- ResumeService
\* Rows a behaviour creates in resumes, and in each of the other tables.
MaxResumes == 3
MaxChildren == 1

\* Days the clock advances in a behaviour.
MaxDays == 2

\* userId of an anonymous resume, resumeId of a roast whose resume is gone.
Null == "null"
NullId == 0

ResumeOwners == {Null, "ua"}
FileHashes == {"h1", "h2"}
DaysOlds == {0, 1}
ResumeIds == 1..MaxResumes
ChildIds == 1..MaxChildren

NoSweep == [daysOld |-> 0, count |-> 0, at |-> 0, swept |-> FALSE]

\* cutoffDate = now - daysOld days, lines 74-75
cutoffDate(daysOld) == rsNow - daysOld

\* A sweep that does not look at the owner.
SweptAnyOwner(daysOld) ==
  {r \in rsResumes : r.createdAt < cutoffDate(daysOld)}

\* where: { createdAt: { lt: cutoffDate }, userId: null }, lines 78-83
Swept(daysOld) ==
  {r \in rsResumes : r.createdAt < cutoffDate(daysOld) /\ r.userId = Null}

Ids(rows) == {r.id : r \in rows}

\* A delete that stops at the resumes table.
DeleteResumesNoCascade(gone) ==
  /\ rsResumes' = rsResumes \ gone
  /\ rsRoasts' =
       {[g EXCEPT !.resumeId = IF @ \in Ids(gone) THEN NullId ELSE @] :
          g \in rsRoasts}
  /\ UNCHANGED <<rsExtracted, rsSummarized>>

\* Deleting rows of resumes with the referential actions of the schema:
\* ExtractedResume.resume onDelete Cascade (part_000 line 220),
\* SummarizedResume.extractedResume onDelete Cascade (line 260),
\* GeneratedRoast.resume and .extractedResume onDelete SetNull (294-295).
DeleteResumes(gone) ==
  LET extractedGone == {x \in rsExtracted : x.resumeId \in Ids(gone)}
  IN /\ rsResumes' = rsResumes \ gone
     /\ rsExtracted' = rsExtracted \ extractedGone
     /\ rsSummarized' =
          {m \in rsSummarized : m.extractedResumeId \notin Ids(extractedGone)}
     /\ rsRoasts' =
          {[g EXCEPT
              !.resumeId = IF @ \in Ids(gone) THEN NullId ELSE @,
              !.extractedResumeId =
                 IF @ \in Ids(extractedGone) THEN NullId ELSE @] :
             g \in rsRoasts}

ResumeIdle ==
  /\ rsResumes = {}
  /\ rsExtracted = {}
  /\ rsSummarized = {}
  /\ rsRoasts = {}
  /\ rsNext = [resume |-> 1, extracted |-> 1, summarized |-> 1, roast |-> 1]
  /\ rsNow = 0
  /\ rsSweep = NoSweep

\* ------------------------------------------------------------------ credits
\* The credits the pricing page states per model (page.tsx lines 246-272).
PricingPageCredits == [nano |-> 1, mini |-> 4, sonnet |-> 8, opus |-> 12]

NoCharge == [pc |-> "idle", model |-> "nano", quoted |-> 0, debited |-> 0]

ChargeIdle == charge = NoCharge

\* -------------------------------------------- GET /api/evaluations/[analysisId]
\* Rows of interview_evaluations in a behaviour.
NEvaluations == 3

EvaluationIds == 1..NEvaluations
AnalysisIds == {"a1", "a2"}
EmptyParam == ""
EvaluationUsers == {"ua", "ub"}
CreatedAts == {1, 2}

\* The columns of model InterviewEvaluation the query could filter on
\* (part_000 lines 395-403); a row is a function from these to values.
InterviewEvaluationColumns == {"id", "interviewPrepId", "userId", "createdAt"}

EvaluationTables ==
  {t \in [EvaluationIds ->
            [id : EvaluationIds, interviewPrepId : AnalysisIds,
             userId : EvaluationUsers \cup {Null}, createdAt : CreatedAts]] :
     \A i \in EvaluationIds : t[i].id = i}

\* session?.user?.id
SessionUserIds == EvaluationUsers \cup {Null}

\* where: { analysisId, ...(session?.user?.id ? { userId } : {}) }: the filter
\* as a function from field names to values, lines 23-27.
EvaluationsWhere(sessionUserId, analysisId) ==
  IF sessionUserId # Null
    THEN [f \in {"analysisId", "userId"} |->
            IF f = "analysisId" THEN analysisId ELSE sessionUserId]
    ELSE [f \in {"analysisId"} |-> analysisId]

\* The Prisma client rejects a where clause that names a field the model
\* does not have (PrismaClientValidationError): the query throws.
WhereRejected(where) == ~(DOMAIN where \subseteq InterviewEvaluationColumns)

Matching(where) ==
  {i \in EvaluationIds :
     \A f \in DOMAIN where :
       f \in InterviewEvaluationColumns /\ evTable[i][f] = where[f]}

\* orderBy: { createdAt: 'desc' }: the orders findMany can return the rows
\* in; rows of equal createdAt come in any order.
NewestFirst(ids) ==
  {q \in [1..Cardinality(ids) -> ids] :
     /\ \A i \in ids : \E k \in DOMAIN q : q[k] = i
     /\ \A k \in 1..(Cardinality(ids) - 1) :
          evTable[q[k]].createdAt >= evTable[q[k + 1]].createdAt}

NoEvaluationsResponse ==
  [pc |-> "idle", sessionUserId |-> Null, analysisId |-> EmptyParam,
   status |-> 0, evaluations |-> <<>>, storeRead |-> FALSE,
   storeDown |-> FALSE]

EvaluationsIdle ==
  /\ evTable = [i \in EvaluationIds |->
       [id |-> i, interviewPrepId |-> "a1", userId |-> Null, createdAt |-> 1]]
  /\ evResp = NoEvaluationsResponse

\* ------------------------------------------------------------ /api/chatbot
\* Conversations created, and randomUUID() values drawn, in a behaviour.
MaxConversations == 1
MaxUuids == 3

Ips == {"ip1"}
ChatUsers == {"ua"}
\* request.headers.get('x-session-token') of a request without the header;
\* the k-th value of crypto.randomUUID() is the token k, and every draw gives
\* a value never seen before.
NoToken == 0
\* conversationId of a body or query that has none
NoConversation == 0

UserMessage == "message"
Answer == "answer"
ApologyText == "I apologize, but I encountered an issue generating a response."
FallbackText == "I'm experiencing some technical difficulties right now."

SearchOutcomes == {"docs", "throws"}
ProviderOutcomes == {"data", "empty", "throws"}
ChatBodies == {"unparseable", "nomessage", "message"}
ChatFailures == {"none", "session", "store", "storeReply"}

\* What a POST meets on its way: the body, whether OPENAI_API_KEY is set, the
\* outcomes of the documentation search and of the provider call, and the
\* call of the environment that throws, if one does. An input the handler
\* does not get to on a path has one value on that path.
PostPath(json, key, search, provider, failure) ==
  [json |-> json, key |-> key, search |-> search, provider |-> provider,
   failure |-> failure]

PostPaths ==
  {PostPath(j, TRUE, "docs", "data", "none") : j \in {"unparseable", "nomessage"}}
  \cup {PostPath("message", FALSE, "docs", "data", "none")}
  \cup {PostPath("message", TRUE, "docs", "data", f) : f \in {"session", "store"}}
  \cup {PostPath("message", TRUE, "throws", "data", f) : f \in {"none", "storeReply"}}
  \cup {PostPath("message", TRUE, "docs", p, f) :
          p \in ProviderOutcomes, f \in {"none", "storeReply"}}

\* generateAIResponse with a catch that hands the failure on.
generateAIResponseRethrows(search, provider) ==
  IF search = "throws" \/ provider = "throws"
    THEN [threw |-> TRUE, text |-> ""]
    ELSE [threw |-> FALSE,
          text |-> IF provider = "empty" THEN ApologyText ELSE Answer]

\* generateAIResponse, lines 60-101: what it returns, and whether it throws.
generateAIResponse(search, provider) ==
  IF search = "throws" \/ provider = "throws"
    THEN [threw |-> FALSE, text |-> FallbackText]
    ELSE [threw |-> FALSE,
          text |-> IF provider = "empty" THEN ApologyText ELSE Answer]

\* The user id of a session, and `anon_` + sha256(ip + "_" + token): the hash
\* is taken to be one-to-one on its input.
SessionId(user) == <<user, "", NoToken>>
AnonymousId(ip, token) == <<"anon", ip, token>>
NoUserId == <<Null, "", NoToken>>

\* generateAnonymousUserId, lines 109-121; uuid is the value randomUUID()
\* gives if it is called.
generateAnonymousUserId(ip, header, uuid) ==
  AnonymousId(ip, IF header # NoToken THEN header ELSE uuid)

\* getChatbotConversation(conversationId, userId) finds the conversation
\* only for the user it belongs to.
getChatbotConversation(conversationId, userId) ==
  /\ conversationId \in DOMAIN cbOwner
  /\ cbOwner[conversationId] = userId

NoChatResponse ==
  [op |-> "none", ip |-> "ip1", header |-> NoToken, sessionUser |-> Null,
   status |-> 0, cause |-> "none", failedAI |-> FALSE, text |-> "",
   conversationId |-> NoConversation, token |-> NoToken, userId |-> NoUserId]

ChatbotIdle ==
  /\ cbOwner = <<>>
  /\ cbMessages = {}
  /\ cbUuids = 0
  /\ cbResp = NoChatResponse

LaterIdle == ResumeIdle /\ ChargeIdle /\ EvaluationsIdle /\ ChatbotIdle

RouteInit ==
  /\ users = {[id |-> UserIdOf(e), email |-> e] : e \in UserEmails}
  /\ generatedResumes = {}
  /\ llmCalls = {}
  /\ llmMessages = {}
  /\ nextId = 1
  /\ pc = [r \in Reqs |-> "idle"]
  /\ session = [r \in Reqs |-> NoSession]
  /\ body = [r \in Reqs |-> NoBody]
  /\ before = [r \in Reqs |-> {}]
  /\ loc = [r \in Reqs |-> NoLocals]
  /\ resp = [r \in Reqs |-> NoResponse]
  /\ providerCalls = [r \in Reqs |-> 0]
  /\ dbError = [r \in Reqs |-> "none"]

Init ==
  /\ RouteInit
  /\ LaterIdle
  /\ ConvertIdle
  /\ QuotaIdle
  /\ TierIdle

\* The request ends with this response; its locals are gone.
Finish(r, response) ==
  /\ pc' = [pc EXCEPT ![r] = "done"]
  /\ resp' = [resp EXCEPT ![r] = response]
  /\ loc' = [loc EXCEPT ![r] = NoLocals]

\* A prologue that reads and checks the body before it checks the session.
StartBodyFirst(r) ==
  /\ pc[r] = "idle"
  /\ \A q \in Reqs : q < r => pc[q] # "idle"
  /\ \E s \in Sessions, b \in Bodies, parses \in BOOLEAN :
       /\ session' = [session EXCEPT ![r] = s]
       /\ body' = [body EXCEPT ![r] = b]
       /\ before' = [before EXCEPT ![r] = {q \in Reqs : pc[q] = "done"}]
       /\ IF ~parses
            THEN Finish(r, ErrorResponse(500))
          ELSE IF Falsy(b.resumeText)
            THEN Finish(r, ErrorResponse(400))
          ELSE IF s = NoSession
            THEN Finish(r, ErrorResponse(401))
          ELSE /\ pc' = [pc EXCEPT ![r] = "findUser"]
               /\ UNCHANGED <<resp, loc>>
  /\ UNCHANGED <<store, providerCalls, dbError>>
  /\ UNCHANGED nonRouteVars

\* Lines 80-112: session check, body parse, resumeText check.  Requests are
\* numbered in the order they arrive.
Start(r) ==
  /\ pc[r] = "idle"
  /\ \A q \in Reqs : q < r => pc[q] # "idle"
  /\ \E s \in Sessions, b \in Bodies, parses \in BOOLEAN :
       /\ session' = [session EXCEPT ![r] = s]
       /\ body' = [body EXCEPT ![r] = b]
       /\ before' = [before EXCEPT ![r] = {q \in Reqs : pc[q] = "done"}]
       /\ IF s = NoSession
            THEN Finish(r, ErrorResponse(401))
          ELSE IF ~parses
            THEN Finish(r, ErrorResponse(500))
          ELSE IF Falsy(b.resumeText)
            THEN Finish(r, ErrorResponse(400))
          ELSE /\ pc' = [pc EXCEPT ![r] = "findUser"]
               /\ UNCHANGED <<resp, loc>>
  /\ UNCHANGED <<store, providerCalls, dbError>>
  /\ UNCHANGED nonRouteVars

\* Lines 115-141: user lookup, truncation, content hash.
FindUser(r) ==
  /\ pc[r] = "findUser"
  /\ \/ \* the read throws: outer catch, line 312
        Finish(r, ErrorResponse(500))
     \/ /\ FindUserByEmail(session[r]) = {}
        /\ Finish(r, ErrorResponse(404))
     \/ \E user \in FindUserByEmail(session[r]) :
          LET truncatedResumeText == Truncate(body[r].resumeText) IN
          /\ loc' = [loc EXCEPT ![r] =
               [@ EXCEPT !.userId = user.id,
                  !.contentHash = ContentHash(truncatedResumeText,
                                    body[r].jobDescription, body[r].analysisId),
                  !.prompt = Prompt(truncatedResumeText,
                               body[r].jobDescription, body[r].analysisData)]]
          /\ pc' = [pc EXCEPT ![r] =
               IF ~body[r].bypassCache THEN "probe" ELSE "provider"]
          /\ UNCHANGED resp
  /\ UNCHANGED <<store, session, body, before, providerCalls, dbError>>
  /\ UNCHANGED nonRouteVars

\* A probe that records telemetry for a hit before answering.
CacheProbeLogsHit(r) ==
  /\ pc[r] = "probe"
  /\ \/ /\ Finish(r, ErrorResponse(500))
        /\ UNCHANGED store
     \/ /\ FindFirstGeneratedResume(loc[r].userId, loc[r].contentHash) = {}
        /\ pc' = [pc EXCEPT ![r] = "provider"]
        /\ UNCHANGED <<store, resp, loc>>
     \/ \E existingResume \in
            FindFirstGeneratedResume(loc[r].userId, loc[r].contentHash) :
          /\ Finish(r, CachedResponse(existingResume))
          /\ llmCalls' = llmCalls \cup
               {[id |-> nextId, userId |-> loc[r].userId,
                 provider |-> "cache", operationType |-> "resume_extraction",
                 totalTokens |-> 0, totalCostUsd |-> 0, status |-> "COMPLETED"]}
          /\ nextId' = nextId + 1
          /\ UNCHANGED <<users, generatedResumes, llmMessages>>
  /\ UNCHANGED <<session, body, before, providerCalls, dbError>>
  /\ UNCHANGED nonRouteVars

\* Lines 144-170: the cache probe.
CacheProbe(r) ==
  /\ pc[r] = "probe"
  /\ \/ Finish(r, ErrorResponse(500))
     \/ /\ FindFirstGeneratedResume(loc[r].userId, loc[r].contentHash) = {}
        /\ pc' = [pc EXCEPT ![r] = "provider"]
        /\ UNCHANGED <<resp, loc>>
     \/ \E existingResume \in
            FindFirstGeneratedResume(loc[r].userId, loc[r].contentHash) :
          Finish(r, CachedResponse(existingResume))
  /\ UNCHANGED <<store, session, body, before, providerCalls, dbError>>
  /\ UNCHANGED nonRouteVars

\* A provider call that is tried again after a failure.
ProviderCallRetries(r) ==
  /\ pc[r] = "provider"
  /\ providerCalls[r] < 2
  /\ providerCalls' = [providerCalls EXCEPT ![r] = @ + 1]
  /\ \/ UNCHANGED <<pc, resp, loc>>
     \/ \E response \in ProviderResponses :
          /\ loc' = [loc EXCEPT ![r] = [@ EXCEPT !.response = response]]
          /\ pc' = [pc EXCEPT ![r] = "createLlmCall"]
          /\ UNCHANGED resp
  /\ UNCHANGED <<store, session, body, before, dbError>>
  /\ UNCHANGED nonRouteVars

\* Lines 210-232: the provider call; a failure goes to the outer catch.
ProviderCall(r) ==
  /\ pc[r] = "provider"
  /\ providerCalls' = [providerCalls EXCEPT ![r] = @ + 1]
  /\ \/ Finish(r, ErrorResponse(500))
     \/ \E response \in ProviderResponses :
          /\ loc' = [loc EXCEPT ![r] = [@ EXCEPT !.response = response]]
          /\ pc' = [pc EXCEPT ![r] = "createLlmCall"]
          /\ UNCHANGED resp
  /\ UNCHANGED <<store, session, body, before, dbError>>
  /\ UNCHANGED nonRouteVars

\* A catch that rethrows: the outer catch answers 500.
RethrowDbError(r, write, generatedResumeId, llmCallId) ==
  /\ dbError' = [dbError EXCEPT ![r] = write]
  /\ Finish(r, ErrorResponse(500))

\* catch (dbError), lines 292-310: the request goes on to its response with
\* whatever ids it has so far.
CatchDbError(r, write, generatedResumeId, llmCallId) ==
  /\ dbError' = [dbError EXCEPT ![r] = write]
  /\ Finish(r, FreshResponse(loc[r].response, generatedResumeId, llmCallId))

\* A row written without its token count and cost: the columns' defaults.
LlmCallRowDefaults(id, userId, response) ==
  [id |-> id, userId |-> userId, provider |-> "anthropic",
   operationType |-> "resume_extraction", totalTokens |-> 0,
   totalCostUsd |-> 0, status |-> "COMPLETED"]

\* The data of db.llmCall.create, lines 241-250.
LlmCallRow(id, userId, response) ==
  [id |-> id, userId |-> userId, provider |-> "anthropic",
   operationType |-> "resume_extraction",
   totalTokens |-> response.totalTokens, totalCostUsd |-> response.cost,
   status |-> "COMPLETED"]

\* Lines 240-253: db.llmCall.create.
CreateLlmCall(r) ==
  /\ pc[r] = "createLlmCall"
  /\ \/ /\ CatchDbError(r, "llmCall", NoId, NoId)
        /\ UNCHANGED store
     \/ /\ llmCalls' = llmCalls \cup
             {LlmCallRow(nextId, loc[r].userId, loc[r].response)}
        /\ nextId' = nextId + 1
        /\ loc' = [loc EXCEPT ![r] = [@ EXCEPT !.llmCallId = nextId]]
        /\ pc' = [pc EXCEPT ![r] = "createUserMessage"]
        /\ UNCHANGED <<users, generatedResumes, llmMessages, resp, dbError>>
  /\ UNCHANGED <<session, body, before, providerCalls>>
  /\ UNCHANGED nonRouteVars

\* Lines 256-264: the user message, index 0.
CreateUserMessage(r) ==
  /\ pc[r] = "createUserMessage"
  /\ \/ /\ CatchDbError(r, "userMessage", NoId, loc[r].llmCallId)
        /\ UNCHANGED store
     \/ /\ llmMessages' = llmMessages \cup
             {[llmCallId |-> loc[r].llmCallId, role |-> "user",
               messageIndex |-> 0,
               totalTokens |-> InputTokenEstimate(loc[r].response.totalTokens)]}
        /\ pc' = [pc EXCEPT ![r] = "createAssistantMessage"]
        /\ UNCHANGED <<users, generatedResumes, llmCalls, nextId, resp, loc,
                       dbError>>
  /\ UNCHANGED <<session, body, before, providerCalls>>
  /\ UNCHANGED nonRouteVars

\* Lines 266-274: the assistant message, index 1.
CreateAssistantMessage(r) ==
  /\ pc[r] = "createAssistantMessage"
  /\ \/ /\ CatchDbError(r, "assistantMessage", NoId, loc[r].llmCallId)
        /\ UNCHANGED store
     \/ /\ llmMessages' = llmMessages \cup
             {[llmCallId |-> loc[r].llmCallId, role |-> "assistant",
               messageIndex |-> 1,
               totalTokens |-> OutputTokenEstimate(loc[r].response.totalTokens)]}
        /\ pc' = [pc EXCEPT ![r] = "createGeneratedResume"]
        /\ UNCHANGED <<users, generatedResumes, llmCalls, nextId, resp, loc,
                       dbError>>
  /\ UNCHANGED <<session, body, before, providerCalls>>
  /\ UNCHANGED nonRouteVars

\* Lines 277-310: db.generatedResume.create, then the response.
CreateGeneratedResume(r) ==
  /\ pc[r] = "createGeneratedResume"
  /\ \/ \* the unique constraint on contentHash rejects the row
        /\ ContentHashTaken(loc[r].contentHash)
        /\ CatchDbError(r, "uniqueContentHash", NoId, loc[r].llmCallId)
        /\ UNCHANGED store
     \/ \* any other failure of the write
        /\ CatchDbError(r, "generatedResume", NoId, loc[r].llmCallId)
        /\ UNCHANGED store
     \/ /\ ~ContentHashTaken(loc[r].contentHash)
        /\ generatedResumes' = generatedResumes \cup
             {[id |-> nextId, userId |-> loc[r].userId,
               templateId |-> templateId, contentHash |-> loc[r].contentHash,
               data |-> loc[r].response.data,
               atsScore |-> calculateATSScore(loc[r].response.data),
               createdAt |-> nextId]}
        /\ nextId' = nextId + 1
        /\ Finish(r, FreshResponse(loc[r].response, nextId, loc[r].llmCallId))
        /\ UNCHANGED <<users, llmCalls, llmMessages, dbError>>
  /\ UNCHANGED <<session, body, before, providerCalls>>
  /\ UNCHANGED nonRouteVars

Next ==
  \E r \in Reqs :
    \/ Start(r)
    \/ FindUser(r)
    \/ CacheProbe(r)
    \/ ProviderCall(r)
    \/ CreateLlmCall(r)
    \/ CreateUserMessage(r)
    \/ CreateAssistantMessage(r)
    \/ CreateGeneratedResume(r)

Spec == Init /\ [][Next]_vars

TypeOK ==
  /\ pc \in [Reqs -> {"idle", "findUser", "probe", "provider", "createLlmCall",
                      "createUserMessage", "createAssistantMessage",
                      "createGeneratedResume", "done"}]
  /\ session \in [Reqs -> Sessions]
  /\ body \in [Reqs -> Bodies \cup {NoBody}]
  /\ providerCalls \in [Reqs -> 0..1]

\* ----------------------------------------- convertPDFToImages, on its own
InitConvert ==
  /\ RouteInit
  /\ LaterIdle
  /\ QuotaIdle
  /\ TierIdle
  /\ cvOutcome \in ServiceOutcomes
  /\ cvPc = "pending"
  /\ cvResult = NoResult

\* One call of convertPDFToImages against the service's outcome.
ConvertPDF ==
  /\ cvPc = "pending"
  /\ cvResult' = convertPDFToImages(cvOutcome)
  /\ cvPc' = "done"
  /\ UNCHANGED <<cvOutcome, routeVars, quotaVars, tierVars, laterVars>>

NextConvert == ConvertPDF

SpecConvert == InitConvert /\ [][NextConvert]_vars

\* -------------------------------------------------- UserService, on its own
\* Accounts as findOrCreate makes them, with the bonus credits bought so far.
InitQuota ==
  /\ RouteInit
  /\ LaterIdle
  /\ ConvertIdle
  /\ TierIdle
  /\ accounts \in
       {[u \in AccountIds |->
           [NewAccount(StartTick) EXCEPT !.bonusCredits = b[u]]] :
          b \in [AccountIds -> BonusBalances]}
  /\ now = StartTick
  /\ chk = [c \in Callers |-> NoCaller]
  /\ result = NoCheckResult
  /\ incCount = [u \in AccountIds |-> 0]
  /\ rolled = {}

QuotaOnly == UNCHANGED <<routeVars, convertVars, tierVars, laterVars>>

Tick ==
  /\ now < StartTick + MaxTicks
  /\ now' = now + 1
  /\ UNCHANGED <<accounts, chk, result, incCount, rolled>>
  /\ QuotaOnly

\* checkRoastLimit, lines 318-331: the row is read, now is taken and
\* monthsElapsed computed.  Without a rollover (lines 342-359) the call
\* returns in the same step; with one it waits for the update.
CheckRoastLimitRead(c, userId) ==
  /\ chk[c].pc = "idle"
  /\ IF userId \notin DOMAIN accounts
       THEN /\ result' = UserNotFound(userId, now)
            /\ UNCHANGED chk
       ELSE LET user == accounts[userId] IN
            IF monthsElapsed(now, user.lastRoastReset) >= 1
              THEN /\ chk' = [chk EXCEPT ![c] =
                        [pc |-> "resetting", userId |-> userId,
                         user |-> user, now |-> now]]
                   /\ UNCHANGED result
              ELSE /\ result' = CheckResult(userId, user, user, now, FALSE)
                   /\ UNCHANGED chk
  /\ UNCHANGED <<accounts, now, incCount, rolled>>
  /\ QuotaOnly

\* A rollover write that stores the whole row as it was read.
CheckRoastLimitWriteWholeRow(c) ==
  /\ chk[c].pc = "resetting"
  /\ LET u == chk[c].userId
         user == [chk[c].user EXCEPT !.monthlyRoasts = 0,
                                     !.lastRoastReset = chk[c].now]
     IN /\ accounts' = [accounts EXCEPT ![u] = user]
        /\ rolled' = rolled \cup {u}
        /\ result' = CheckResult(u, user, chk[c].user, chk[c].now, TRUE)
  /\ chk' = [chk EXCEPT ![c] = NoCaller]
  /\ UNCHANGED <<now, incCount>>
  /\ QuotaOnly

\* checkRoastLimit, lines 332-359: the update lands, the local user object
\* gets monthlyRoasts = 0, and the call returns.
CheckRoastLimitWrite(c) ==
  /\ chk[c].pc = "resetting"
  /\ LET u == chk[c].userId
         user == [chk[c].user EXCEPT !.monthlyRoasts = 0]
     IN /\ accounts' = [accounts EXCEPT ![u] =
             [@ EXCEPT !.monthlyRoasts = 0, !.lastRoastReset = chk[c].now]]
        /\ rolled' = rolled \cup {u}
        /\ result' = CheckResult(u, user, chk[c].user, chk[c].now, TRUE)
  /\ chk' = [chk EXCEPT ![c] = NoCaller]
  /\ UNCHANGED <<now, incCount>>
  /\ QuotaOnly

\* An increment that forgets the lifetime counter.
IncrementRoastCountMonthlyOnly(userId) ==
  /\ userId \in DOMAIN accounts
  /\ incCount[userId] < MaxRoasts
  /\ accounts' = [accounts EXCEPT ![userId] =
       [@ EXCEPT !.monthlyRoasts = @ + 1]]
  /\ incCount' = [incCount EXCEPT ![userId] = @ + 1]
  /\ UNCHANGED <<now, chk, result, rolled>>
  /\ QuotaOnly

\* incrementRoastCount, lines 363-371: one update with two increments.
IncrementRoastCount(userId) ==
  /\ userId \in DOMAIN accounts
  /\ incCount[userId] < MaxRoasts
  /\ accounts' = [accounts EXCEPT ![userId] =
       [@ EXCEPT !.monthlyRoasts = @ + 1, !.totalRoasts = @ + 1]]
  /\ incCount' = [incCount EXCEPT ![userId] = @ + 1]
  /\ UNCHANGED <<now, chk, result, rolled>>
  /\ QuotaOnly

\* updateSubscription, lines 374-384: of the usage columns and the tier it
\* can write only the tier.
UpdateSubscription(userId, tier) ==
  /\ userId \in DOMAIN accounts
  /\ accounts[userId].subscriptionTier # tier
  /\ accounts' = [accounts EXCEPT ![userId] =
       [@ EXCEPT !.subscriptionTier = tier]]
  /\ UNCHANGED <<now, chk, result, incCount, rolled>>
  /\ QuotaOnly

NextQuota ==
  \/ Tick
  \/ \E c \in Callers, u \in RequestedIds : CheckRoastLimitRead(c, u)
  \/ \E c \in Callers : CheckRoastLimitWrite(c)
  \/ \E u \in AccountIds : IncrementRoastCount(u)
  \/ \E u \in AccountIds, t \in Tiers : UpdateSubscription(u, t)

SpecQuota == InitQuota /\ [][NextQuota]_vars

\* -------------------------------------------------- charging an extraction
\* An account as findOrCreate and incrementRoastCount calls leave it, on any
\* tier, and an extraction with one of the four AI models to be charged.
InitCredits ==
  /\ RouteInit
  /\ ConvertIdle
  /\ TierIdle
  /\ ResumeIdle
  /\ EvaluationsIdle
  /\ ChatbotIdle
  /\ \E k \in 0..MaxRoasts, t \in Tiers, b \in BonusBalances :
       /\ accounts = [u \in AccountIds |->
            [NewAccount(StartTick) EXCEPT !.subscriptionTier = t,
               !.bonusCredits = b, !.monthlyRoasts = k, !.totalRoasts = k]]
       /\ incCount = [u \in AccountIds |-> k]
  /\ now = StartTick
  /\ chk = [c \in Callers |-> NoCaller]
  /\ result = NoCheckResult
  /\ rolled = {}
  /\ charge \in {[NoCharge EXCEPT !.pc = "pending", !.model = m] : m \in Models}

\* The extraction is charged to the account with incrementRoastCount (lines
\* 363-371), the one operation of the code that debits usage; it takes the
\* user id only.
ChargeExtraction(userId) ==
  /\ charge.pc = "pending"
  /\ accounts' = [accounts EXCEPT ![userId] =
       [@ EXCEPT !.monthlyRoasts = @ + 1, !.totalRoasts = @ + 1]]
  /\ incCount' = [incCount EXCEPT ![userId] = @ + 1]
  /\ charge' = [charge EXCEPT !.pc = "done",
                  !.quoted = PricingPageCredits[charge.model],
                  !.debited = accounts'[userId].monthlyRoasts
                                - accounts[userId].monthlyRoasts]
  /\ UNCHANGED <<now, chk, result, rolled>>
  /\ UNCHANGED <<routeVars, convertVars, tierVars, resumeVars, evalVars, chatVars>>

NextCredits == \E u \in AccountIds : ChargeExtraction(u)

SpecCredits == InitCredits /\ [][NextCredits]_vars

\* --------------------------- GET /api/evaluations/[analysisId], on its own
InitEvaluations ==
  /\ RouteInit
  /\ ConvertIdle
  /\ QuotaIdle
  /\ TierIdle
  /\ ResumeIdle
  /\ ChargeIdle
  /\ ChatbotIdle
  /\ evTable \in EvaluationTables
  /\ evResp = NoEvaluationsResponse

\* GET, lines 6-54, for one request.
EvaluationsGet(sessionUserId, analysisId) ==
  /\ LET request == [NoEvaluationsResponse EXCEPT !.pc = "done",
                       !.sessionUserId = sessionUserId,
                       !.analysisId = analysisId]
         where == EvaluationsWhere(sessionUserId, analysisId)
     IN \/ \* getServerSession throws: catch, line 47
           evResp' = [request EXCEPT !.status = 500, !.storeDown = TRUE]
        \/ /\ analysisId = EmptyParam
           /\ evResp' = [request EXCEPT !.status = 400]
        \/ \* findMany throws because the store cannot be reached
           /\ analysisId # EmptyParam
           /\ evResp' = [request EXCEPT !.status = 500, !.storeRead = TRUE,
                           !.storeDown = TRUE]
        \/ /\ analysisId # EmptyParam
           /\ WhereRejected(where)
           /\ evResp' = [request EXCEPT !.status = 500, !.storeRead = TRUE]
        \/ /\ analysisId # EmptyParam
           /\ ~WhereRejected(where)
           /\ \E q \in NewestFirst(Matching(where)) :
                evResp' = [request EXCEPT !.status = 200, !.storeRead = TRUE,
                             !.evaluations = q]
  /\ UNCHANGED evTable
  /\ UNCHANGED <<routeVars, convertVars, quotaVars, tierVars, resumeVars, charge,
                 chatVars>>

NextEvaluations ==
  \E u \in SessionUserIds, a \in AnalysisIds \cup {EmptyParam} :
    EvaluationsGet(u, a)

SpecEvaluations == InitEvaluations /\ [][NextEvaluations]_vars

\* ---------------------------------------------- /api/chatbot, on its own
InitChatbot ==
  /\ RouteInit
  /\ ConvertIdle
  /\ QuotaIdle
  /\ TierIdle
  /\ ResumeIdle
  /\ ChargeIdle
  /\ EvaluationsIdle
  /\ ChatbotIdle

ChatOnly ==
  UNCHANGED <<routeVars, convertVars, quotaVars, tierVars, resumeVars, charge,
              evalVars>>

\* POST, lines 124-202, for one request. key: OPENAI_API_KEY is set; failure:
\* the call of the environment that throws, if one does.
ChatbotPost(ip, header, sessionUser, json, conversationId, key, search, provider, failure) ==
  LET anonymous == sessionUser = Null
      drawn == IF anonymous /\ header = NoToken THEN 1 ELSE 0
      userId == IF anonymous
                  THEN generateAnonymousUserId(ip, header, cbUuids + 1)
                  ELSE SessionId(sessionUser)
      created == conversationId = NoConversation
      currentConversationId ==
        IF created THEN Len(cbOwner) + 1 ELSE conversationId
      userRow == [conversationId |-> currentConversationId, role |-> "user",
                  message |-> UserMessage]
      ai == generateAIResponse(search, provider)
      botRow == [conversationId |-> currentConversationId,
                 role |-> "assistant", message |-> ai.text]
      request == [NoChatResponse EXCEPT !.op = "POST", !.ip = ip,
                    !.header = header, !.sessionUser = sessionUser]
      identified == [request EXCEPT !.userId = userId]
      answered == [identified EXCEPT
                     !.failedAI = (search = "throws" \/ provider = "throws"),
                     !.conversationId = currentConversationId]
  IN /\ header \in 0..cbUuids
     /\ conversationId \in 0..Len(cbOwner)
     /\ created => Len(cbOwner) < MaxConversations
     /\ cbUuids + 2 * drawn <= MaxUuids
     /\ IF json = "unparseable"
          THEN /\ cbResp' = [request EXCEPT !.status = 500, !.cause = "body"]
               /\ UNCHANGED <<cbOwner, cbMessages, cbUuids>>
        ELSE IF json = "nomessage"
          THEN /\ cbResp' = [request EXCEPT !.status = 400]
               /\ UNCHANGED <<cbOwner, cbMessages, cbUuids>>
        ELSE IF ~key
          THEN /\ cbResp' = [request EXCEPT !.status = 500, !.cause = "key"]
               /\ UNCHANGED <<cbOwner, cbMessages, cbUuids>>
        ELSE IF failure = "session"
          THEN /\ cbResp' = [request EXCEPT !.status = 500, !.cause = "session"]
               /\ UNCHANGED <<cbOwner, cbMessages, cbUuids>>
        ELSE IF failure = "store"
          THEN /\ cbResp' = [identified EXCEPT !.status = 500, !.cause = "store"]
               /\ cbUuids' = cbUuids + drawn
               /\ UNCHANGED <<cbOwner, cbMessages>>
        ELSE /\ cbOwner' = IF created THEN Append(cbOwner, userId) ELSE cbOwner
             /\ IF ai.threw
                  THEN /\ cbResp' = [answered EXCEPT !.status = 500,
                                       !.cause = "provider"]
                       /\ cbMessages' = cbMessages \cup {userRow}
                       /\ cbUuids' = cbUuids + drawn
                ELSE IF failure = "storeReply"
                  THEN /\ cbResp' = [answered EXCEPT !.status = 500,
                                       !.cause = "store"]
                       /\ cbMessages' = cbMessages \cup {userRow}
                       /\ cbUuids' = cbUuids + drawn
                ELSE /\ cbResp' =
                          [answered EXCEPT
                             !.status = 200,
                             !.text = botRow.message,
                             !.token =
                               IF ~anonymous THEN NoToken
                               ELSE IF header # NoToken THEN header
                               ELSE cbUuids + drawn + 1]
                     /\ cbMessages' = cbMessages \cup {userRow, botRow}
                     /\ cbUuids' = cbUuids + 2 * drawn
     /\ ChatOnly

\* GET, lines 205-254, for one request.
ChatbotGet(ip, header, sessionUser, conversationId, failure) ==
  LET anonymous == sessionUser = Null
      drawn == IF anonymous /\ header = NoToken THEN 1 ELSE 0
      userId == IF anonymous
                  THEN generateAnonymousUserId(ip, header, cbUuids + 1)
                  ELSE SessionId(sessionUser)
      request == [NoChatResponse EXCEPT !.op = "GET", !.ip = ip,
                    !.header = header, !.sessionUser = sessionUser,
                    !.conversationId = conversationId]
      identified == [request EXCEPT !.userId = userId]
      listed == conversationId = NoConversation
  IN /\ header \in 0..cbUuids
     /\ conversationId \in 0..Len(cbOwner)
     /\ failure \in {"none", "session", "store"}
     /\ cbUuids + 2 * drawn <= MaxUuids
     /\ IF failure = "session"
          THEN /\ cbResp' = [request EXCEPT !.status = 500, !.cause = "session"]
               /\ UNCHANGED cbUuids
        ELSE IF failure = "store"
          THEN /\ cbResp' = [identified EXCEPT !.status = 500, !.cause = "store"]
               /\ cbUuids' = cbUuids + drawn
        ELSE IF listed
          THEN /\ cbResp' =
                    [identified EXCEPT
                       !.status = 200,
                       !.token = IF ~anonymous THEN NoToken
                                 ELSE IF header # NoToken THEN header
                                 ELSE cbUuids + drawn + 1]
               /\ cbUuids' = cbUuids + 2 * drawn
        ELSE /\ cbResp' =
                  [identified EXCEPT
                     !.status =
                       IF getChatbotConversation(conversationId, userId)
                         THEN 200 ELSE 404]
             /\ cbUuids' = cbUuids + drawn
     /\ UNCHANGED <<cbOwner, cbMessages>>
     /\ ChatOnly

NextChatbot ==
  \E ip \in Ips, header \in 0..MaxUuids, sessionUser \in ChatUsers \cup {Null},
     conversationId \in 0..MaxConversations :
    \/ \E p \in PostPaths :
         ChatbotPost(ip, header, sessionUser, p.json, conversationId, p.key,
                     p.search, p.provider, p.failure)
    \/ \E failure \in ChatFailures :
         ChatbotGet(ip, header, sessionUser, conversationId, failure)

SpecChatbot == InitChatbot /\ [][NextChatbot]_vars

\* ------------------------------------------------ ResumeService, on its own
InitResume ==
  /\ RouteInit
  /\ ConvertIdle
  /\ QuotaIdle
  /\ TierIdle
  /\ ResumeIdle
  /\ ChargeIdle
  /\ EvaluationsIdle
  /\ ChatbotIdle

ResumeOnly ==
  UNCHANGED <<routeVars, convertVars, quotaVars, tierVars, charge, evalVars,
              chatVars>>

ResumeTick ==
  /\ rsNow < MaxDays
  /\ rsNow' = rsNow + 1
  /\ UNCHANGED <<rsResumes, rsExtracted, rsSummarized, rsRoasts, rsNext, rsSweep>>
  /\ ResumeOnly

\* ResumeService.create, lines 34-54; fileHash is unique (part_000 line 193).
ResumeCreate(userId, fileHash) ==
  /\ rsNext.resume <= MaxResumes
  /\ IF \E r \in rsResumes : r.fileHash = fileHash
       THEN UNCHANGED <<rsResumes, rsNext>>
       ELSE /\ rsResumes' = rsResumes \cup
                 {[id |-> rsNext.resume, userId |-> userId,
                   fileHash |-> fileHash, createdAt |-> rsNow]}
            /\ rsNext' = [rsNext EXCEPT !.resume = @ + 1]
  /\ UNCHANGED <<rsExtracted, rsSummarized, rsRoasts, rsNow, rsSweep>>
  /\ ResumeOnly

\* ExtractedResumeService.create, lines 124-132; resumeId must reference a
\* row of resumes.
ExtractedResumeCreate(resumeId) ==
  /\ rsNext.extracted <= MaxChildren
  /\ IF resumeId \notin Ids(rsResumes)
       THEN UNCHANGED <<rsExtracted, rsNext>>
       ELSE /\ rsExtracted' = rsExtracted \cup
                 {[id |-> rsNext.extracted, resumeId |-> resumeId]}
            /\ rsNext' = [rsNext EXCEPT !.extracted = @ + 1]
  /\ UNCHANGED <<rsResumes, rsSummarized, rsRoasts, rsNow, rsSweep>>
  /\ ResumeOnly

\* A row of summarized_resumes (part_000 lines 252-264); extractedResumeId
\* must reference a row of extracted_resumes.
SummarizedResumeCreate(extractedResumeId) ==
  /\ rsNext.summarized <= MaxChildren
  /\ IF extractedResumeId \notin Ids(rsExtracted)
       THEN UNCHANGED <<rsSummarized, rsNext>>
       ELSE /\ rsSummarized' = rsSummarized \cup
                 {[id |-> rsNext.summarized,
                   extractedResumeId |-> extractedResumeId]}
            /\ rsNext' = [rsNext EXCEPT !.summarized = @ + 1]
  /\ UNCHANGED <<rsResumes, rsExtracted, rsRoasts, rsNow, rsSweep>>
  /\ ResumeOnly

\* GeneratedRoastService.create, lines 173-185; resumeId and
\* extractedResumeId are optional and must reference rows when given.
GeneratedRoastCreate(resumeId, extractedResumeId) ==
  /\ rsNext.roast <= MaxChildren
  /\ IF \/ resumeId \notin Ids(rsResumes) \cup {NullId}
        \/ extractedResumeId \notin Ids(rsExtracted) \cup {NullId}
       THEN UNCHANGED <<rsRoasts, rsNext>>
       ELSE /\ rsRoasts' = rsRoasts \cup
                 {[id |-> rsNext.roast, resumeId |-> resumeId,
                   extractedResumeId |-> extractedResumeId]}
            /\ rsNext' = [rsNext EXCEPT !.roast = @ + 1]
  /\ UNCHANGED <<rsResumes, rsExtracted, rsSummarized, rsNow, rsSweep>>
  /\ ResumeOnly

\* ResumeService.deleteOldResumes, lines 73-85.
deleteOldResumes(daysOld) ==
  /\ DeleteResumes(Swept(daysOld))
  /\ rsSweep' = [daysOld |-> daysOld, count |-> Cardinality(Swept(daysOld)),
                 at |-> rsNow, swept |-> TRUE]
  /\ UNCHANGED <<rsNext, rsNow>>
  /\ ResumeOnly

\* ResumeService.deleteById, lines 88-92; delete throws when no row matches.
deleteById(resumeId) ==
  /\ DeleteResumes({r \in rsResumes : r.id = resumeId})
  /\ UNCHANGED <<rsNext, rsNow, rsSweep>>
  /\ ResumeOnly

\* ResumeService.deleteByHash, lines 95-99.
deleteByHash(fileHash) ==
  /\ DeleteResumes({r \in rsResumes : r.fileHash = fileHash})
  /\ UNCHANGED <<rsNext, rsNow, rsSweep>>
  /\ ResumeOnly

\* ExtractedResumeService.delete, lines 135-139: the row goes, its summaries
\* with it, and roasts that referenced it keep a null reference.
ExtractedResumeDelete(id) ==
  /\ LET gone == {x \in rsExtracted : x.id = id}
     IN /\ rsExtracted' = rsExtracted \ gone
        /\ rsSummarized' =
             {m \in rsSummarized : m.extractedResumeId \notin Ids(gone)}
        /\ rsRoasts' =
             {[g EXCEPT !.extractedResumeId =
                  IF @ \in Ids(gone) THEN NullId ELSE @] : g \in rsRoasts}
  /\ UNCHANGED <<rsResumes, rsNext, rsNow, rsSweep>>
  /\ ResumeOnly

NextResume ==
  \/ ResumeTick
  \/ \E u \in ResumeOwners, h \in FileHashes : ResumeCreate(u, h)
  \/ \E i \in ResumeIds : ExtractedResumeCreate(i)
  \/ \E i \in ChildIds : SummarizedResumeCreate(i)
  \/ \E i \in ResumeIds \cup {NullId}, j \in ChildIds \cup {NullId} :
       GeneratedRoastCreate(i, j)
  \/ \E d \in DaysOlds : deleteOldResumes(d)
  \/ \E i \in ResumeIds : deleteById(i)
  \/ \E h \in FileHashes : deleteByHash(h)
  \/ \E i \in ChildIds : ExtractedResumeDelete(i)

SpecResume == InitResume /\ [][NextResume]_vars

\* ------------------------------------------------------------------ claims
Done(r) == pc[r] = "done"

\* The content hash the handler computes for the request's body.
HashOf(r) ==
  ContentHash(Truncate(body[r].resumeText), body[r].jobDescription,
              body[r].analysisId)

\* The request stored a GeneratedResume row and answered with its id.
Stored(r) ==
  /\ Done(r)
  /\ resp[r].status = 200
  /\ ~resp[r].cached
  /\ resp[r].resumeId # NoId

\* r2 is a later request of the same authenticated user with the same
\* resumeText, jobDescription and analysisId, both with bypassCache = false.
Resubmission(r1, r2) ==
  /\ r1 # r2
  /\ Done(r1) /\ Done(r2)
  /\ r1 \in before[r2]
  /\ session[r1] # NoSession
  /\ session[r2] = session[r1]
  /\ ~body[r1].bypassCache /\ ~body[r2].bypassCache
  /\ body[r2].resumeText = body[r1].resumeText
  /\ body[r2].jobDescription = body[r1].jobDescription
  /\ body[r2].analysisId = body[r1].analysisId

C2_UniqueContentHash ==
  \A g, h \in generatedResumes : g.contentHash = h.contentHash => g = h

\* Two requests of one user raced: both missed the cache and both called the
\* provider; one stored its row, the other's create was rejected.
C2_Witness ==
  \E w, r \in Reqs :
    /\ w # r
    /\ Stored(w)
    /\ Done(r)
    /\ session[r] = session[w]
    /\ ~body[w].bypassCache /\ ~body[r].bypassCache
    /\ HashOf(r) = HashOf(w)
    /\ providerCalls[w] = 1 /\ providerCalls[r] = 1
    /\ dbError[r] = "uniqueContentHash"

\* C3: of two requests of one user that raced on a fingerprint, the one whose
\* create hit the uniqueness conflict answers with the winner's artifact id.
C3_LoserReturnsWinner ==
  \A w, r \in Reqs :
    (/\ w # r
     /\ Stored(w)
     /\ Done(r)
     /\ session[r] = session[w]
     /\ ~body[w].bypassCache /\ ~body[r].bypassCache
     /\ HashOf(r) = HashOf(w)
     /\ dbError[r] = "uniqueContentHash") =>
      /\ resp[r].status = 200
      /\ resp[r].resumeId = resp[w].resumeId

\* C4: a request with bypassCache = true for a fingerprint that already has a
\* stored row, when no store write fails for another reason, answers with a
\* new row's id: not null and not the existing row's id.
C4_BypassCreatesNewRow ==
  \A w, r \in Reqs :
    (/\ w # r
     /\ Stored(w)
     /\ w \in before[r]
     /\ Done(r)
     /\ body[r].bypassCache
     /\ HashOf(r) = HashOf(w)
     /\ resp[r].status = 200
     /\ dbError[r] \in {"none", "uniqueContentHash"}) =>
      /\ resp[r].resumeId # NoId
      /\ resp[r].resumeId # resp[w].resumeId
      /\ \E g \in generatedResumes : g.id = resp[r].resumeId

\* C5: once user A's request has stored a row, an identical later request
\* with bypassCache = false from another user B that is answered with
\* success returns that row with cached = true and calls no provider.
C5_CrossUserCacheHit ==
  \A a, b \in Reqs :
    (/\ a # b
     /\ Stored(a)
     /\ a \in before[b]
     /\ Done(b)
     /\ session[b] \in UserEmails
     /\ session[b] # session[a]
     /\ ~body[b].bypassCache
     /\ body[b].resumeText = body[a].resumeText
     /\ body[b].jobDescription = body[a].jobDescription
     /\ body[b].analysisId = body[a].analysisId
     /\ body[b].analysisData = body[a].analysisData
     /\ resp[b].status = 200) =>
      /\ resp[b].cached
      /\ resp[b].resumeId = resp[a].resumeId
      /\ providerCalls[b] = 0

\* C6: a cache hit returns only a row whose generating request had the same
\* inputs: the same resume text after truncation, job description, analysis
\* id and analysis data (the template id is the same for every request).
C6_CacheHitSameInputs ==
  \A q, r \in Reqs :
    (/\ Stored(q)
     /\ Done(r)
     /\ resp[r].cached
     /\ resp[r].resumeId = resp[q].resumeId) =>
      /\ Truncate(body[r].resumeText) = Truncate(body[q].resumeText)
      /\ body[r].jobDescription = body[q].jobDescription
      /\ body[r].analysisId = body[q].analysisId
      /\ body[r].analysisData = body[q].analysisData

\* C7: a request that hits the cache ends right there: the step that finds
\* the row makes no provider call, writes no row of any table, and answers
\* with the stored row's id, data and score only.
C7_CacheHitFrame ==
  [][\A r \in Reqs :
       (pc[r] = "probe" /\ pc'[r] # "probe" /\ resp'[r].status # 500
          /\ \E g \in generatedResumes :
               g.userId = UserIdOf(session[r]) /\ g.contentHash = HashOf(r)) =>
         /\ pc'[r] = "done"
         /\ resp'[r].cached
         /\ providerCalls'[r] = 0
         /\ UNCHANGED <<users, generatedResumes, llmCalls, llmMessages>>
         /\ \E g \in generatedResumes :
              /\ g.userId = UserIdOf(session[r])
              /\ g.contentHash = HashOf(r)
              /\ resp'[r].resumeId = g.id
              /\ resp'[r].data = g.data
              /\ resp'[r].atsScore \in {g.atsScore, 75}
         /\ resp'[r].llmCallId = NoId
         /\ resp'[r].tokensUsed = 0]_vars

C7_Witness ==
  \E r \in Reqs :
    /\ Done(r)
    /\ resp[r].cached
    /\ providerCalls[r] = 0
    /\ llmCalls # {}
    /\ \E g \in generatedResumes : g.id = resp[r].resumeId

\* The provider call of the request returned: the request got as far as the
\* store writes.
ProviderReturned(r) ==
  /\ Done(r)
  /\ providerCalls[r] = 1
  /\ resp[r].status = 200

\* The LlmCall row of the request's provider call is in the store, with the
\* call's token count and cost.
TelemetryRecorded(r) ==
  /\ resp[r].llmCallId # NoId
  /\ \E c \in llmCalls :
       /\ c.id = resp[r].llmCallId
       /\ c.totalTokens = resp[r].tokensUsed
       /\ c.totalCostUsd = resp[r].estimatedCost

ArtifactWriteFailed(r) ==
  /\ Done(r)
  /\ providerCalls[r] = 1
  /\ dbError[r] \in {"generatedResume", "uniqueContentHash"}

\* C9 as stated: a request whose artifact write fails after a successful
\* provider call is answered with a failure.
C9_AsStated ==
  \A r \in Reqs :
    ArtifactWriteFailed(r) => (resp[r].status = 500 /\ ~resp[r].success)

\* C9 amended: such a request is answered with success (200, success = true,
\* cached = false), the provider's data and a null resumeId.
C9_ArtifactWriteFailureIsSuccess ==
  \A r \in Reqs :
    ArtifactWriteFailed(r) =>
      /\ resp[r].status = 200
      /\ resp[r].success
      /\ ~resp[r].cached
      /\ resp[r].resumeId = NoId
      /\ resp[r].data \in ExtractedDatas
      /\ resp[r].tokensUsed > 0

C9_Witness ==
  \E r \in Reqs :
    /\ ArtifactWriteFailed(r)
    /\ dbError[r] = "generatedResume"
    /\ resp[r].success
    /\ resp[r].llmCallId # NoId

\* C10 as stated: a finished request has called the provider at most once:
\* not at all when it ends with 401, 400, 404 or a cache hit, exactly once
\* otherwise.
C10_AsStated ==
  \A r \in Reqs :
    Done(r) =>
      IF resp[r].status \in {401, 400, 404} \/ resp[r].cached
        THEN providerCalls[r] = 0
        ELSE providerCalls[r] = 1

\* C10 amended: a request calls the provider at most once: not at all when it
\* ends with 401, 400, 404, a cache hit or a 500 raised before the provider
\* call (unparsable body, failed store read), exactly once when it ends with
\* an uncached success; the step in which the provider fails ends the
\* request with 500, is not repeated and writes nothing.
C10_SingleProviderAttempt ==
  [][\A r \in Reqs :
       /\ providerCalls'[r] <= 1
       /\ Done(r)' =>
            /\ (resp'[r].status \in {401, 400, 404} \/ resp'[r].cached)
                 => providerCalls'[r] = 0
            /\ (resp'[r].status = 200 /\ ~resp'[r].cached)
                 => providerCalls'[r] = 1
            /\ resp'[r].status \in {200, 400, 401, 404, 500}
       /\ (pc[r] = "provider" /\ pc'[r] \notin {"provider", "createLlmCall"}) =>
            /\ pc'[r] = "done"
            /\ resp'[r].status = 500
            /\ providerCalls'[r] = 1
            /\ UNCHANGED <<users, generatedResumes, llmCalls, llmMessages>>
       /\ (pc[r] = "provider" /\ pc'[r] = "provider") =>
            providerCalls'[r] = providerCalls[r]]_vars

\* A request whose provider call failed, next to one that never got to it.
C10_Witness ==
  \E r, q \in Reqs :
    /\ Done(r) /\ resp[r].status = 500 /\ providerCalls[r] = 1
    /\ Done(q) /\ resp[q].status = 500 /\ providerCalls[q] = 0

\* C11: convertPDFToImages never raises; on a network error, a non-2xx
\* status, an unparsable body or a body without success = true it returns
\* the empty list, and only a 2xx answer with success = true yields the
\* service's images.
C11_ConvertNeverRaises ==
  cvPc = "done" =>
    /\ ~cvResult.raised
    /\ (\/ cvOutcome.network = "error"
        \/ cvOutcome.status \notin 200..299
        \/ ~cvOutcome.parses
        \/ ~cvOutcome.success) => cvResult.images = <<>>
    /\ cvResult.images # <<>> =>
         /\ cvOutcome.network = "ok"
         /\ cvOutcome.status \in 200..299
         /\ cvOutcome.parses /\ cvOutcome.success /\ cvOutcome.hasImages
         /\ cvResult.images = cvOutcome.images

\* The service answered 500 with a body that would have carried images.
C11_Witness ==
  /\ cvPc = "done"
  /\ cvOutcome.network = "ok"
  /\ cvOutcome.status = 500
  /\ cvOutcome.hasImages /\ Len(cvOutcome.images) = 2
  /\ cvResult = Returned(<<>>)

\* C12: convertPDFToImages returns at most 3 images, whatever number the
\* conversion service returns.
C12_AtMostThreeImages ==
  cvPc = "done" => Len(cvResult.images) <= MaxPages

\* ------------------------------------------- /api/extract-pdf-ai, on its own
\* A request to /api/extract-pdf-ai: the preprocessor runs against a
\* conversion service that answers in any way, then the strategy is chosen.
InitTier ==
  /\ RouteInit
  /\ LaterIdle
  /\ QuotaIdle
  /\ cvOutcome \in ServiceOutcomes
  /\ cvPc = "pending"
  /\ cvResult = NoResult
  /\ tsInput \in TierInputs
  /\ tsPc = "pending"
  /\ tsChoice = NoChoice

SelectTier ==
  /\ cvPc = "done"
  /\ tsPc = "pending"
  /\ tsChoice' = selectTier(tsInput, Len(cvResult.images) > 0)
  /\ tsPc' = "done"
  /\ UNCHANGED <<tsInput, routeVars, convertVars, quotaVars, laterVars>>

NextTier ==
  \/ ConvertPDF
  \/ SelectTier

SpecTier == InitTier /\ [][NextTier]_vars

\* --------------------------------------------------- claims on UserService
\* Whole calendar months from instant last to instant t, counted on the
\* calendar itself: months are numbered consecutively from tick 0.
WholeMonthsBetween(t, last) == (t \div TicksPerMonth) - (last \div TicksPerMonth)

RolloverLands(c) == chk[c].pc = "resetting" /\ chk'[c].pc = "idle"

\* C13: a checkRoastLimit call that finds at least one whole calendar month
\* between its now and the lastRoastReset it read stores monthlyRoasts = 0 and
\* lastRoastReset = now, touching no other column, and reports used = 0; a
\* call that finds less than one month changes no field of the account and
\* reports the monthlyRoasts it read.
C13_Rollover ==
  [][/\ \A c \in Callers :
          chk'[c].pc = "resetting" =>
            WholeMonthsBetween(chk'[c].now, chk'[c].user.lastRoastReset) >= 1
     /\ \A c \in Callers :
          RolloverLands(c) =>
            /\ accounts' = [accounts EXCEPT ![chk[c].userId] =
                 [@ EXCEPT !.monthlyRoasts = 0, !.lastRoastReset = chk[c].now]]
            /\ result'.reset
            /\ result'.used = 0
            /\ result'.read = chk[c].user
            /\ result'.at = chk[c].now
     /\ (result' # result /\ result'.reset) => \E c \in Callers : RolloverLands(c)
     /\ (result' # result /\ result'.error = "none" /\ ~result'.reset) =>
          /\ WholeMonthsBetween(result'.at, result'.read.lastRoastReset) < 1
          /\ result'.read = accounts[result'.userId]
          /\ result'.used = result'.read.monthlyRoasts
          /\ accounts' = accounts]_vars

\* A rollover has landed on an account that had recorded usage.
C13_Witness ==
  /\ result.reset
  /\ result.used = 0
  /\ result.read.monthlyRoasts > 0
  /\ result.userId \in rolled
  /\ accounts[result.userId].lastRoastReset = result.at

\* C14: a check allows the operation exactly when the limit is unlimited, or
\* used < limit, or the bonus credit balance of the account is above 0.
C14_BonusCreditsAllow ==
  result.error = "none" =>
    (result.canRoast <=>
       \/ result.limit = -1
       \/ result.used < result.limit
       \/ result.read.bonusCredits > 0)

C16_MonthlyOnlyForward ==
  [][\A u \in AccountIds :
       LET old == accounts[u]
           new == accounts'[u]
       IN /\ new.lastRoastReset >= old.lastRoastReset
          /\ \/ new.monthlyRoasts = old.monthlyRoasts
             \/ new.monthlyRoasts = old.monthlyRoasts + 1
             \/ /\ new.monthlyRoasts = 0
                /\ WholeMonthsBetween(new.lastRoastReset,
                                      old.lastRoastReset) >= 1]_vars

\* C17: no increment is lost: totalRoasts is the number of incrementRoastCount
\* calls made for the account, whatever rollovers interleave with them, and so
\* is monthlyRoasts as long as no rollover has landed.
C17_IncrementsNotLost ==
  \A u \in AccountIds :
    /\ accounts[u].totalRoasts = incCount[u]
    /\ u \notin rolled => accounts[u].monthlyRoasts = incCount[u]

\* A rollover has landed whose call read the account before increments that
\* were made before the write.
C17_Witness ==
  /\ result.reset
  /\ result.userId \in AccountIds
  /\ accounts[result.userId].monthlyRoasts = 0
  /\ accounts[result.userId].totalRoasts >= result.read.totalRoasts + 2
  /\ accounts[result.userId].lastRoastReset = result.at

\* ------------------------------------------- claims on the tier selector
\* C18: for an anonymous request the strategy chosen is basic, whatever
\* method, provider and model were requested and whatever the preprocessor
\* returned, and no provider and no model is named for invocation.
C18_AnonymousAlwaysBasic ==
  (tsPc = "done" /\ ~tsInput.isRegisteredUser) =>
    /\ tsChoice.strategy = "basic"
    /\ tsChoice.provider = "none"
    /\ tsChoice.model = "none"

\* An anonymous request for method ai with model opus, with page images at
\* hand, has been given basic.
C18_Witness ==
  /\ tsPc = "done"
  /\ ~tsInput.isRegisteredUser
  /\ tsInput.requestedMethod = "ai"
  /\ tsInput.model = "opus"
  /\ Len(cvResult.images) > 0
  /\ tsChoice.strategy = "basic"

\* C19: for a registered user and one of the four models, method ai or auto
\* gives vision exactly when the preprocessor returned at least one image and
\* the model is mini, sonnet or opus, and text otherwise; method basic gives
\* basic.
C19_VisionIffImagesAndCapable ==
  (/\ tsPc = "done"
   /\ tsInput.isRegisteredUser
   /\ tsInput.provider \in {"openai", "anthropic"}
   /\ tsInput.model \in {"nano", "mini", "sonnet", "opus"}) =>
    LET images == Len(cvResult.images) > 0
        capable == tsInput.model \in {"mini", "sonnet", "opus"}
    IN /\ tsInput.requestedMethod = "basic" => tsChoice.strategy = "basic"
       /\ tsInput.requestedMethod \in {"ai", "auto"} =>
            /\ tsChoice.strategy = (IF images /\ capable THEN "vision" ELSE "text")
            /\ tsChoice.provider = tsInput.provider
            /\ tsChoice.model = tsInput.model

\* A registered user asking for auto with model sonnet and two page images
\* has been given vision.
C19_Witness ==
  /\ tsPc = "done"
  /\ tsInput.isRegisteredUser
  /\ tsInput.requestedMethod = "auto"
  /\ tsInput.model = "sonnet"
  /\ Len(cvResult.images) = 2
  /\ tsChoice.strategy = "vision"

MessagesOf(call) == {m \in llmMessages : m.llmCallId = call.id}

\* C24: for every LlmCall that has its user message (index 0) and its
\* assistant message (index 1), the totalTokens of the two messages add up to
\* the totalTokens of the call.
C24_MessageTokensSumToCall ==
  \A call \in llmCalls :
    \A u, a \in MessagesOf(call) :
      (u.messageIndex = 0 /\ a.messageIndex = 1) =>
        u.totalTokens + a.totalTokens = call.totalTokens

\* C26: a cached response reports the atsScore that the response of the
\* request that stored the row reported.
C26_CachedScoreIsStoredScore ==
  \A q, r \in Reqs :
    (/\ Stored(q)
     /\ Done(r)
     /\ resp[r].status = 200
     /\ resp[r].cached
     /\ resp[r].resumeId = resp[q].resumeId) =>
      resp[r].atsScore = resp[q].atsScore

\* ------------------------------------------ further claims on UserService
\* C29: in every result of checkRoastLimit canRoast is true exactly when
\* remaining is not 0; on FREE and PLUS remaining is limit - used, or 0 when
\* used is above the limit, and never negative; on PREMIUM remaining and
\* limit are both -1.
C29_ResultConsistent ==
  result.error = "none" =>
    /\ result.canRoast <=> result.remaining # 0
    /\ result.tier \in {"FREE", "PLUS"} =>
         /\ result.limit > 0
         /\ result.remaining >= 0
         /\ result.remaining =
              (IF result.used > result.limit THEN 0
               ELSE result.limit - result.used)
    /\ result.tier = "PREMIUM" =>
         /\ result.remaining = -1
         /\ result.limit = -1

\* A FREE account has been checked with more usage than its limit.
C29_Witness ==
  /\ result.error = "none"
  /\ result.tier = "FREE"
  /\ result.used > result.limit
  /\ result.remaining = 0
  /\ ~result.canRoast

\* C30: in every state 0 <= monthlyRoasts <= totalRoasts on every account,
\* and no step lowers totalRoasts.
C30_MonthlyWithinTotal ==
  [][\A u \in AccountIds :
       /\ 0 <= accounts[u].monthlyRoasts
       /\ accounts[u].monthlyRoasts <= accounts[u].totalRoasts
       /\ 0 <= accounts'[u].monthlyRoasts
       /\ accounts'[u].monthlyRoasts <= accounts'[u].totalRoasts
       /\ accounts'[u].totalRoasts >= accounts[u].totalRoasts]_vars

\* An account has usage from before and from after a rollover.
C30_Witness ==
  \E u \in rolled :
    /\ accounts[u].monthlyRoasts >= 1
    /\ accounts[u].totalRoasts > accounts[u].monthlyRoasts

\* ------------------------------------------------ claims on ResumeService
\* C21: a sweep deleteOldResumes(daysOld) removes from resumes exactly the
\* rows without an owner that were created more than daysOld days before
\* now, and reports their number; every row with an owner and every
\* anonymous row not older than that stays in the table as it was.
C21_SweepDeletesOldAnonymous ==
  [][rsSweep' # rsSweep =>
       LET old == {r \in rsResumes :
                     r.userId = "null"
                     /\ r.createdAt + rsSweep'.daysOld < rsNow}
       IN /\ rsResumes' = rsResumes \ old
          /\ rsSweep'.count = Cardinality(old)
          /\ \A r \in rsResumes :
               (r.userId # "null" \/ r.createdAt + rsSweep'.daysOld >= rsNow)
                 => r \in rsResumes']_vars

\* A sweep has removed an old anonymous resume and left an owned resume of
\* that age and a younger anonymous one.
C21_Witness ==
  /\ rsSweep.swept
  /\ rsSweep.count = 1
  /\ rsSweep.at = rsNow
  /\ \E r \in rsResumes :
       r.userId # "null" /\ r.createdAt + rsSweep.daysOld < rsNow
  /\ \E r \in rsResumes :
       r.userId = "null" /\ r.createdAt + rsSweep.daysOld >= rsNow

\* C28: every ExtractedResume references a row of resumes and every
\* SummarizedResume a row of extracted_resumes; no GeneratedRoast is ever
\* removed, and a roast's resumeId and extractedResumeId are null or
\* reference existing rows.
C28_ReferentialIntegrity ==
  /\ \A x \in rsExtracted : \E r \in rsResumes : r.id = x.resumeId
  /\ \A m \in rsSummarized : \E x \in rsExtracted : x.id = m.extractedResumeId
  /\ {g.id : g \in rsRoasts} = 1..(rsNext.roast - 1)
  /\ \A g \in rsRoasts :
       /\ g.resumeId # 0 => \E r \in rsResumes : r.id = g.resumeId
       /\ g.extractedResumeId # 0 =>
            \E x \in rsExtracted : x.id = g.extractedResumeId

\* A resume that had an extracted row, a summary and a roast has been
\* deleted: the roast is still there, with null references.
C28_Witness ==
  /\ rsResumes = {}
  /\ rsNext.resume > 1
  /\ rsNext.extracted > 1
  /\ rsNext.summarized > 1
  /\ \E g \in rsRoasts : g.resumeId = 0 /\ g.extractedResumeId = 0
  /\ rsExtracted = {} /\ rsSummarized = {}

\* --------------------------------------------------------- claim on credits
\* C22: an extraction with OpenAI Nano costs 1, with OpenAI Mini 2, with
\* Claude Sonnet 4 3 and with Claude Opus 4 4 credits: that is what is debited
\* from the account, and what the pricing page states for the model.
C22_CreditsPerModel ==
  charge.pc = "done" =>
    LET credits == [nano |-> 1, mini |-> 2, sonnet |-> 3, opus |-> 4]
    IN /\ charge.debited = credits[charge.model]
       /\ charge.quoted = credits[charge.model]

\* ------------------------------------------ claim on the evaluations route
\* C23: GET with an empty analysisId is answered 400 without a store read;
\* with an analysisId, and the session and the store in working order, it
\* returns a list that holds only evaluations of that analysisId, newest
\* first, and for a logged-in caller only evaluations of that caller.
C23_OnlyOwnEvaluationsOfAnalysis ==
  (evResp.pc = "done" /\ ~evResp.storeDown) =>
    IF evResp.analysisId = ""
      THEN evResp.status = 400 /\ ~evResp.storeRead
      ELSE LET ids == evResp.evaluations
           IN /\ evResp.status = 200
              /\ \A k \in DOMAIN ids :
                   /\ "analysisId" \in DOMAIN evTable[ids[k]]
                   /\ evTable[ids[k]]["analysisId"] = evResp.analysisId
                   /\ evResp.sessionUserId # "null" =>
                        evTable[ids[k]]["userId"] = evResp.sessionUserId
              /\ \A k \in 1..(Len(ids) - 1) :
                   evTable[ids[k]]["createdAt"] >= evTable[ids[k + 1]]["createdAt"]

\* ------------------------------------------------- claims on the chatbot
\* A POST that reached generateAIResponse with a failing documentation search
\* or provider call, and met no store failure, is answered with success and
\* the fallback text, which is stored as assistant message of the conversation.
ProviderFailureAnswered ==
  (cbResp.op = "POST" /\ cbResp.failedAI /\ cbResp.cause # "store") =>
    /\ cbResp.status = 200
    /\ cbResp.text = "I'm experiencing some technical difficulties right now."
    /\ [conversationId |-> cbResp.conversationId, role |-> "assistant",
        message |-> cbResp.text] \in cbMessages

\* C25 as stated: a failing provider call or documentation search never fails
\* the chatbot POST, which answers with the stored fallback text; only a store
\* failure or a missing API key produces a 500.
C25_Original ==
  /\ ProviderFailureAnswered
  /\ (cbResp.op = "POST" /\ cbResp.status = 500) =>
       cbResp.cause \in {"store", "key"}

\* C25 amended: a failing provider call or documentation search never fails
\* the chatbot POST, which answers with the stored fallback text; a 500 comes
\* from a store failure, a missing API key, a body that is not JSON or a
\* failing session lookup.
C25_ProviderFailureFallsBack ==
  /\ ProviderFailureAnswered
  /\ (cbResp.op = "POST" /\ cbResp.status = 500) =>
       cbResp.cause \in {"store", "key", "body", "session"}

C25_Witness ==
  /\ cbResp.op = "POST"
  /\ cbResp.failedAI
  /\ cbResp.status = 200
  /\ \E r \in cbMessages :
       r.role = "assistant" /\ r.message = cbResp.text

\* C27: for an anonymous POST sent without an x-session-token header, the
\* token returned in the response is the token the anonymous user id of that
\* request was derived from, so the same IP carrying the returned token is
\* identified by the id that owns the conversation the request created.
C27_ReturnedTokenIdentifies ==
  (/\ cbResp.op = "POST"
   /\ cbResp.status = 200
   /\ cbResp.sessionUser = "null"
   /\ cbResp.header = 0) =>
    /\ cbResp.userId = <<"anon", cbResp.ip, cbResp.token>>
    /\ getChatbotConversation(cbResp.conversationId,
                              <<"anon", cbResp.ip, cbResp.token>>)

====
